---- MODULE Spec2Model ----
(***************************************************************************)
(* Model of the Sectograph event service (EventService, SettingsService)   *)
(* of src/src/app/TimeManager/utils/services/SettingsService.js.           *)
(*                                                                         *)
(* Time is counted in minutes since a Monday 00:00 (local time), so one    *)
(* hour is HOUR_MS = 60 units.  Angles are counted in half degrees, so     *)
(* 360 degrees is 360 * DEG with DEG = 2 and the 0.5 degrees per minute of *)
(* convertTimeToAngle is one unit per minute.  A JavaScript NaN (the time  *)
(* of an Invalid Date, an angle computed from one) is the value NaN; an    *)
(* absent (undefined) property is NoVal for strings and Undef for numbers. *)
(***************************************************************************)
EXTENDS Integers, Sequences, FiniteSets, TLC

HOUR_MS == 60
DEG == 2
NaN == -1000000
Undef == -2000000
NoVal == "<undefined>"

\* Bounds of the model.
MaxEvents == 2
MaxTicks == 1
\* The most iterations of the while loop of #repeateRule the model follows.
MaxIter == 10

\* The clock at start-up: 800 hours after the model's epoch.
Now0 == 800 * HOUR_MS

RepeatRules == {"never", "day", "week", "month"}

\* Ids: what a caller may leave on an event and what #generatorId may return.
IdPool == {"a", "b", "c"}

(***************************************************************************)
(* Events.  Every record carries all properties; an absent one is NoVal or *)
(* Undef.  isObject = FALSE is the value null.                             *)
(***************************************************************************)
Ev(id, description, start, end, repeat) ==
  [isObject |-> TRUE, id |-> id, description |-> description,
   start |-> start, end |-> end, repeat |-> repeat, color |-> "0xff0000",
   checkRepeat |-> NoVal, startAngle |-> Undef, endAngle |-> Undef]

NullEvent ==
  [isObject |-> FALSE, id |-> NoVal, description |-> NoVal,
   start |-> NaN, end |-> NaN, repeat |-> NoVal, color |-> NoVal,
   checkRepeat |-> NoVal, startAngle |-> Undef, endAngle |-> Undef]

\* The events a caller hands to create and edit, without their id:
\*   upcoming (starts in 1h, ends in 2h), long (starts in 1h, ends in 12h),
\*   old (ended 29h ago), one with a blank description, a daily one, one
\*   whose repeat is no rule.
Templates ==
  { Ev(NoVal, "tea", Now0 + 1 * HOUR_MS, Now0 + 2 * HOUR_MS, "never"),
    Ev(NoVal, "tea", Now0 + 1 * HOUR_MS, Now0 + 12 * HOUR_MS, "never"),
    Ev(NoVal, "tea", Now0 - 30 * HOUR_MS, Now0 - 29 * HOUR_MS, "never"),
    Ev(NoVal, " ", Now0 + 1 * HOUR_MS, Now0 + 2 * HOUR_MS, "never"),
    Ev(NoVal, "tea", Now0 + 1 * HOUR_MS, Now0 + 2 * HOUR_MS, "day"),
    Ev(NoVal, "tea", Now0 + 1 * HOUR_MS, Now0 + 2 * HOUR_MS, "yearly") }

CallerIds == {NoVal, "a"}

InputEvents == { [t EXCEPT !.id = i] : t \in Templates, i \in CallerIds } \cup {NullEvent}

(***************************************************************************)
(* JavaScript arithmetic and comparison on numbers that may be NaN.        *)
(***************************************************************************)
IsNum(v) == v # NaN

Minus(a, b) == IF IsNum(a) /\ IsNum(b) THEN a - b ELSE NaN

Lt(a, b) == IsNum(a) /\ IsNum(b) /\ a < b

Le(a, b) == IsNum(a) /\ IsNum(b) /\ a <= b

Gt(a, b) == IsNum(a) /\ IsNum(b) /\ a > b

Ge(a, b) == IsNum(a) /\ IsNum(b) /\ a >= b

\* String.prototype.trim on the descriptions of the model.
Trim(s) == IF s = " " THEN "" ELSE s

\* new Date(v) instanceof Date: new Date always returns a Date object, also
\* an Invalid Date for an unparsable v.
InstanceOfDate(v) == TRUE

(***************************************************************************)
(* The flat file store (FileService, not in src/): a named blob is absent, *)
(* unparsable text, or the JSON text of the value last written.            *)
(***************************************************************************)
AbsentBlob == [kind |-> "absent", events |-> <<>>]

CorruptBlob == [kind |-> "corrupt", events |-> <<>>]

\* FileService.writeFile(name, value): the blob becomes value's JSON text.
Serialize(list) == [kind |-> "json", events |-> list]

\* JSON.parse of a blob's text; throws on unparsable text.
Parse(b) == IF b.kind = "json" THEN [ok |-> TRUE, events |-> b.events]
            ELSE [ok |-> FALSE, events |-> <<>>]

\* #loadEvents: no content or a parse failure give the empty list.
LoadEvents(b) == IF b.kind = "absent" THEN <<>>
                 ELSE IF Parse(b).ok THEN Parse(b).events
                 ELSE <<>>

\* #saveEvents: the write either replaces the blob or throws and leaves it.
SaveEventsSwallow(b, list, wfail) ==
  IF wfail THEN [blob |-> b, err |-> "none"]
  ELSE [blob |-> Serialize(list), err |-> "none"]

SaveEvents(b, list, wfail) ==
  IF wfail THEN [blob |-> b, err |-> "write failed"]
  ELSE [blob |-> Serialize(list), err |-> "none"]

(***************************************************************************)
(* #checkEventFields: "ok" when it returns true, else the error it throws. *)
(***************************************************************************)
CheckEventFields(ev) ==
  IF ~ev.isObject THEN "Event must be a valid object"
  ELSE IF Trim(ev.description) = "" THEN "Invalid description"
  ELSE IF ~InstanceOfDate(ev.start) THEN "Invalid startDate"
  ELSE IF ~InstanceOfDate(ev.end) THEN "Invalid endDate"
  ELSE IF ev.repeat \notin RepeatRules THEN "Invalid repeat"
  ELSE "ok"

Valid(ev) == CheckEventFields(ev) = "ok"

AllValid(list) == \A i \in 1..Len(list) : Valid(list[i])

Ids(list) == { list[i].id : i \in 1..Len(list) }

(***************************************************************************)
(* The calendar behind Date: minute 0 is Monday 2024-01-01 00:00 local     *)
(* time; months are numbered 0..11 as getMonth does.                       *)
(***************************************************************************)
EpochYear == 2000 + 24

DAY_MIN == 24 * HOUR_MS

IsLeap(y) == (y % 4 = 0 /\ y % 100 # 0) \/ y % 400 = 0

DaysInMonth(y, m) ==
  IF m = 1 THEN (IF IsLeap(y) THEN 29 ELSE 28)
  ELSE IF m \in {3, 5, 8, 10} THEN 30
  ELSE 31

RECURSIVE CivilFromDays(_, _, _)
CivilFromDays(d, y, m) ==
  IF d < DaysInMonth(y, m) THEN [year |-> y, month |-> m, date |-> d + 1]
  ELSE CivilFromDays(d - DaysInMonth(y, m),
                     IF m = 11 THEN y + 1 ELSE y,
                     IF m = 11 THEN 0 ELSE m + 1)

RECURSIVE DaysBeforeMonth(_, _, _, _)
DaysBeforeMonth(y, m, cy, cm) ==
  IF cy = y /\ cm = m THEN 0
  ELSE DaysInMonth(cy, cm) + DaysBeforeMonth(y, m,
                                             IF cm = 11 THEN cy + 1 ELSE cy,
                                             IF cm = 11 THEN 0 ELSE cm + 1)

\* new Date(y, m, d).getTime(): local midnight of that day.
DateOf(y, m, d) == (DaysBeforeMonth(y, m, EpochYear, 0) + d - 1) * DAY_MIN

Civil(t) == CivilFromDays(t \div DAY_MIN, EpochYear, 0)

GetHours(t) == (t \div HOUR_MS) % 24

GetMinutes(t) == t % HOUR_MS

\* getDay: 0 is Sunday; minute 0 is a Monday.
GetDay(t) == ((t \div DAY_MIN) + 1) % 7

(***************************************************************************)
(* Geometry.                                                               *)
(***************************************************************************)
\* EventService.convertTimeToAngle, in half degrees.
ConvertTimeToAngleStrict(t) ==
  IF ~IsNum(t) THEN NaN
  ELSE LET result == GetHours(t) * 60 + GetMinutes(t)
       IN IF result > 360 * DEG THEN result % (360 * DEG) ELSE result

ConvertTimeToAngle(t) ==
  IF ~IsNum(t) THEN NaN
  ELSE LET result == GetHours(t) * 60 + GetMinutes(t)
       IN IF result >= 360 * DEG THEN result % (360 * DEG) ELSE result

\* convertTimeToAngle of SectographApp/utils/calculate.js, on a time given
\* as {h, m}, in half degrees.
CalcConvertTimeToAngle(time) ==
  LET result == time.h * 60 + time.m
  IN IF result >= 360 * DEG THEN result % (360 * DEG) ELSE result

\* #calculateEventAngles(event, timeNow).  The second clamp names
\* EventsManager, which is not defined anywhere: reaching it throws.
CalculateEventAngles(event, timeNow) ==
  LET deleteTime == timeNow - 2 * HOUR_MS
      Wrapped(s, e, err) ==
        [startAngle |-> IF Gt(s, e) THEN s - 360 * DEG ELSE s,
         endAngle |-> e, err |-> err]
      Clamped(startAngle, endAngle) ==
        IF Lt(event.start, deleteTime)
        THEN Wrapped(ConvertTimeToAngle(deleteTime), endAngle, "none")
        ELSE IF Gt(event.end, timeNow + 10 * HOUR_MS)
        THEN [startAngle |-> startAngle, endAngle |-> endAngle,
              err |-> "EventsManager is not defined"]
        ELSE Wrapped(startAngle, endAngle, "none")
  IN Clamped(ConvertTimeToAngle(event.start), ConvertTimeToAngle(event.end))

(***************************************************************************)
(* Recurrence.                                                             *)
(***************************************************************************)
\* new Date(v) + ms: + on a Date and a number concatenates the Date's text
\* with the number; the resulting string is no numeral, so it compares and
\* converts as NaN.
DatePlusNumberNumeric(v, ms) == IF IsNum(v) /\ IsNum(ms) THEN v + ms ELSE NaN

DatePlusNumber(v, ms) == NaN

\* #getMsToSameDateInNextMonth
GetMsToSameDateInNextMonth(event) ==
  IF ~IsNum(event.start) THEN NaN
  ELSE LET start == event.start
           c == Civil(start)
           currentDay == c.date
           nextMonth == IF c.month + 1 > 11 THEN 0 ELSE c.month + 1
           nextYear == IF c.month + 1 > 11 THEN c.year + 1 ELSE c.year
           daysInNextMonth == DaysInMonth(nextYear, nextMonth)
           nextDay == IF currentDay < daysInNextMonth THEN currentDay
                      ELSE daysInNextMonth
       IN DateOf(nextYear, nextMonth, nextDay) - start

\* #getRepeatTimeMs
GetRepeatTimeMs(event) ==
  IF event.repeat = "day" THEN 24 * HOUR_MS
  ELSE IF event.repeat = "week" THEN 7 * 24 * HOUR_MS
  ELSE IF event.repeat = "month" THEN GetMsToSameDateInNextMonth(event)
  ELSE 0

\* new Event(e) (models/Event, not in src/): an Event-shaped copy of e.
NewEvent(e) == e

\* The while loop of #repeateRule, n counting its iterations so far.
RECURSIVE RepeatLoop(_, _, _, _, _, _)
RepeatLoop(event, repeatedEvent, repeatMs, periodEnd, listToAdd, n) ==
  IF ~Le(repeatedEvent.start, periodEnd) \/ n >= MaxIter THEN listToAdd
  ELSE LET step == IF event.repeat = "month"
                   THEN GetMsToSameDateInNextMonth(repeatedEvent)
                   ELSE repeatMs
       IN RepeatLoop(event,
                     [repeatedEvent EXCEPT !.start = DatePlusNumber(@, step),
                                           !.end = DatePlusNumber(@, step)],
                     step, periodEnd,
                     Append(listToAdd, NewEvent(repeatedEvent)), n + 1)

\* #repeateRule(event, period, listToAdd): listToAdd after the call.
RepeateRule(event, period, listToAdd) ==
  LET repeatMs == GetRepeatTimeMs(event)
  IN IF event.repeat # "never"
     THEN RepeatLoop(event,
                     [event EXCEPT !.checkRepeat = event.repeat,
                                   !.repeat = "never",
                                   !.start = DatePlusNumber(event.start, repeatMs),
                                   !.end = DatePlusNumber(event.end, repeatMs)],
                     repeatMs, period.end, listToAdd, 0)
     ELSE listToAdd

(***************************************************************************)
(* Filters.                                                                *)
(***************************************************************************)
\* #actualEventsFilter at the instant t.
ActualEventsFilter(event, t) ==
  \/ Le(Minus(event.start, t), 10 * HOUR_MS) /\ Ge(event.start, t)
  \/ Le(Minus(t, event.end), 2 * HOUR_MS) /\ Ge(t, event.end)
  \/ Ge(t, event.start) /\ Le(t, event.end)

\* #deleteFilter at the instant t.
DeleteFilterInclusive(event, autoDelete, t) ==
  IF event.repeat # NoVal /\ event.repeat # "" /\ event.repeat # "never" THEN FALSE
  ELSE IF autoDelete = "day"
  THEN Gt(t, event.end) /\ Ge(Minus(t, event.end), HOUR_MS * 24)
  ELSE IF autoDelete = "week"
  THEN Gt(t, event.end) /\ Ge(Minus(t, event.end), HOUR_MS * 24 * 7)
  ELSE IF autoDelete = "month"
  THEN Gt(t, event.end) /\ Ge(Minus(t, event.end), HOUR_MS * 24 * 31)
  ELSE FALSE

DeleteFilter(event, autoDelete, t) ==
  IF event.repeat # NoVal /\ event.repeat # "" /\ event.repeat # "never" THEN FALSE
  ELSE IF autoDelete = "day"
  THEN Gt(t, event.end) /\ Gt(Minus(t, event.end), HOUR_MS * 24)
  ELSE IF autoDelete = "week"
  THEN Gt(t, event.end) /\ Gt(Minus(t, event.end), HOUR_MS * 24 * 7)
  ELSE IF autoDelete = "month"
  THEN Gt(t, event.end) /\ Gt(Minus(t, event.end), HOUR_MS * 24 * 31)
  ELSE FALSE

(***************************************************************************)
(* #uploadActualEvents at the instant t: the list left in actualEvents and *)
(* the error thrown, if any.  A throw leaves the events pushed so far.     *)
(***************************************************************************)
RECURSIVE UploadLoop(_, _, _)
UploadLoop(evs, t, acts) ==
  IF evs = <<>> THEN [acts |-> acts, err |-> "none"]
  ELSE IF ~Head(evs).isObject THEN [acts |-> acts, err |-> "TypeError"]
  ELSE LET ev == Head(evs)
           Angled(acts1, a) ==
             IF a.err # "none" THEN [acts |-> acts1, err |-> a.err]
             ELSE UploadLoop(Tail(evs), t,
                    Append(acts1, [ev EXCEPT !.startAngle = a.startAngle,
                                             !.endAngle = a.endAngle]))
           Checked(acts1, c) ==
             IF c # "ok" THEN [acts |-> acts1, err |-> c]
             ELSE IF ActualEventsFilter(ev, t)
             THEN Angled(acts1, CalculateEventAngles(ev, t))
             ELSE UploadLoop(Tail(evs), t, acts1)
           Expanded(acts1) == Checked(acts1, CheckEventFields(ev))
       IN Expanded(RepeateRule(ev, [start |-> t - 2 * HOUR_MS,
                                    end |-> t + 10 * HOUR_MS], acts))

UploadActualEvents(b, t) == UploadLoop(LoadEvents(b), t, <<>>)

(***************************************************************************)
(* SettingsService.  A settings value is [isObject, autoDelete,            *)
(* colorTheme]; a property that is missing or no string is NoVal.          *)
(***************************************************************************)
Settings(autoDelete, colorTheme) ==
  [isObject |-> TRUE, autoDelete |-> autoDelete, colorTheme |-> colorTheme]

DefaultSettings == Settings("never", "standard")

AbsentSettings == [kind |-> "absent", value |-> DefaultSettings]

CorruptSettings == [kind |-> "corrupt", value |-> DefaultSettings]

InputSettings == { Settings("never", "standard"), Settings("day", "standard"),
                   Settings(NoVal, "standard") }

\* #validateSettings: TRUE when it returns, FALSE when it throws.
ValidateSettings(settings) ==
  /\ settings.isObject
  /\ settings.autoDelete # NoVal
  /\ settings.colorTheme # NoVal

\* saveSettings: the settings blob after the call and the error thrown.
SaveSettings(sb, settings, wfail) ==
  IF ~ValidateSettings(settings) THEN [sblob |-> sb, err |-> "Save settings failed"]
  ELSE IF wfail THEN [sblob |-> sb, err |-> "Save settings failed"]
  ELSE [sblob |-> [kind |-> "json", value |-> settings], err |-> "none"]

\* #setDefaultSettings
SetDefaultSettings(sb, wfail) ==
  LET Saved(saved) ==
        [settings |-> DefaultSettings, sblob |-> saved.sblob, err |-> saved.err]
  IN Saved(SaveSettings(sb, DefaultSettings, wfail))

\* loadSettings: JSON.parse of an absent blob is null, of unparsable text a
\* throw; both, and an invalid shape, lead to #setDefaultSettings.
LoadSettings(sb, wfail) ==
  IF sb.kind = "json" /\ ValidateSettings(sb.value)
  THEN [settings |-> Settings(sb.value.autoDelete, sb.value.colorTheme),
        sblob |-> sb, err |-> "none"]
  ELSE SetDefaultSettings(sb, wfail)

(***************************************************************************)
(* EventService operations.  Each operator gives the state after the call: *)
(* the events blob, the actualEvents list, the error thrown ("none" when   *)
(* the call returns) and what the call returned.                           *)
(***************************************************************************)
Outcome(b, sb, acts, err, ret, gen, wrote) ==
  [blob |-> b, sblob |-> sb, acts |-> acts, err |-> err, ret |-> ret,
   gen |-> gen, wrote |-> wrote]

\* #generateEventId(event, allEvents): the event after the while loop, gen
\* being the id #generatorId returned last.
GenerateEventIdNoCheck(event, allEvents, gen) == event

GenerateEventId(event, allEvents, gen) ==
  IF event.id \in Ids(allEvents) THEN [event EXCEPT !.id = gen] ELSE event

\* The ids on which the while loop of #generateEventId can end: a generated
\* id that no stored event carries; NoVal when the loop body never runs.
Rolls(event, allEvents) ==
  IF event.id \in Ids(allEvents) THEN IdPool \ Ids(allEvents) ELSE {NoVal}

\* clearHistoryOfEvents
ClearHistoryOfEvents(b, sb, acts, wfail) ==
  LET Saved(saved) ==
        IF saved.err # "none"
        THEN Outcome(b, sb, acts, "Clear history failed", <<>>, NoVal, FALSE)
        ELSE Outcome(saved.blob, sb, acts, "none", <<>>, NoVal, TRUE)
  IN Saved(SaveEvents(b, <<>>, wfail))

\* createNewEvent
CreateNewEvent(b, sb, acts, event, gen, wfail, t) ==
  LET Refreshed(nb, rolled, up) ==
        Outcome(nb, sb, up.acts, up.err, <<>>, rolled, TRUE)
      Saved(saved, rolled) ==
        IF saved.err # "none"
        THEN Outcome(b, sb, acts, saved.err, <<>>, rolled, FALSE)
        ELSE Refreshed(saved.blob, rolled, UploadActualEvents(saved.blob, t))
      Identified(result, withId) ==
        Saved(SaveEvents(b, Append(result, withId), wfail),
              IF withId.id # event.id THEN gen ELSE NoVal)
      Loaded(result) == Identified(result, GenerateEventId(event, result, gen))
      Checked(c) ==
        IF c # "ok" THEN Outcome(b, sb, acts, c, <<>>, NoVal, FALSE)
        ELSE Loaded(LoadEvents(b))
  IN Checked(CheckEventFields(event))

\* The for loop of editEvent.
RECURSIVE EditLoop(_, _, _)
EditLoop(evs, event, result) ==
  IF evs = <<>> THEN [list |-> result, err |-> "none"]
  ELSE LET ev == Head(evs)
           Checked(c) ==
             IF c # "ok" THEN [list |-> result, err |-> c]
             ELSE IF ~event.isObject THEN [list |-> result, err |-> "TypeError"]
             ELSE IF event.id = ev.id
             THEN EditLoop(Tail(evs), event, Append(result, event))
             ELSE EditLoop(Tail(evs), event, Append(result, ev))
       IN Checked(CheckEventFields(ev))

\* editEvent
EditEvent(b, sb, acts, event, wfail, t) ==
  LET Refreshed(nb, up) == Outcome(nb, sb, up.acts, up.err, <<>>, NoVal, TRUE)
      Saved(saved) ==
        IF saved.err # "none"
        THEN Outcome(b, sb, acts, saved.err, <<>>, NoVal, FALSE)
        ELSE Refreshed(saved.blob, UploadActualEvents(saved.blob, t))
      Looped(loop) ==
        IF loop.err # "none"
        THEN Outcome(b, sb, acts, loop.err, <<>>, NoVal, FALSE)
        ELSE Saved(SaveEvents(b, loop.list, wfail))
  IN Looped(EditLoop(LoadEvents(b), event, <<>>))

\* The for loop of deleteEvent.
RECURSIVE DeleteLoop(_, _, _)
DeleteLoop(evs, id, result) ==
  IF evs = <<>> THEN [list |-> result, err |-> "none"]
  ELSE LET ev == Head(evs)
           Checked(c) ==
             IF c # "ok" THEN [list |-> result, err |-> c]
             ELSE IF ev.id # id THEN DeleteLoop(Tail(evs), id, Append(result, ev))
             ELSE DeleteLoop(Tail(evs), id, result)
       IN Checked(CheckEventFields(ev))

\* deleteEvent
DeleteEvent(b, sb, acts, id, wfail, t) ==
  LET Refreshed(nb, result, up) ==
        Outcome(nb, sb, up.acts, up.err,
                IF up.err = "none" THEN result ELSE <<>>, NoVal, TRUE)
      Saved(saved, result) ==
        IF saved.err # "none"
        THEN Outcome(b, sb, acts, saved.err, <<>>, NoVal, FALSE)
        ELSE Refreshed(saved.blob, result, UploadActualEvents(saved.blob, t))
      Looped(loop) ==
        IF loop.err # "none"
        THEN Outcome(b, sb, acts, loop.err, <<>>, NoVal, FALSE)
        ELSE Saved(SaveEvents(b, loop.list, wfail), loop.list)
  IN Looped(DeleteLoop(LoadEvents(b), id, <<>>))

\* The for loop of #autoDeleteEvents.
RECURSIVE AutoDeleteLoop(_, _, _, _)
AutoDeleteLoop(evs, autoDelete, t, deleteFilterDone) ==
  IF evs = <<>> THEN [list |-> deleteFilterDone, err |-> "none"]
  ELSE LET ev == Head(evs)
           Checked(c) ==
             IF c # "ok" THEN [list |-> deleteFilterDone, err |-> c]
             ELSE IF ~DeleteFilter(ev, autoDelete, t)
             THEN AutoDeleteLoop(Tail(evs), autoDelete, t, Append(deleteFilterDone, ev))
             ELSE AutoDeleteLoop(Tail(evs), autoDelete, t, deleteFilterDone)
       IN Checked(CheckEventFields(ev))

\* #autoDeleteEvents: wfS and wfE say whether a write of the settings blob
\* and of the events blob fails during the call.
AutoDeleteEvents(b, sb, acts, wfS, wfE, t) ==
  LET Saved(saved, nsb) ==
        IF saved.err # "none"
        THEN Outcome(b, nsb, acts, saved.err, <<>>, NoVal, FALSE)
        ELSE Outcome(saved.blob, nsb, acts, "none", <<>>, NoVal, TRUE)
      Looped(loop, nsb) ==
        IF loop.err # "none"
        THEN Outcome(b, nsb, acts, loop.err, <<>>, NoVal, FALSE)
        ELSE Saved(SaveEvents(b, loop.list, wfE), nsb)
      Loaded(ls) ==
        IF ls.err # "none"
        THEN Outcome(b, ls.sblob, acts, ls.err, <<>>, NoVal, FALSE)
        ELSE Looped(AutoDeleteLoop(LoadEvents(b), ls.settings.autoDelete, t, <<>>),
                    ls.sblob)
  IN Loaded(LoadSettings(sb, wfS))

\* getActualEvents
GetActualEventsPersisting(b, sb, acts, wfS, wfE, t) ==
  LET Refreshed(swept, up) ==
        Outcome(Serialize(up.acts), swept.sblob, up.acts, up.err,
                IF up.err = "none" THEN up.acts ELSE <<>>, NoVal, TRUE)
      Swept(swept) ==
        IF swept.err # "none" THEN swept
        ELSE Refreshed(swept, UploadActualEvents(swept.blob, t))
  IN Swept(AutoDeleteEvents(b, sb, acts, wfS, wfE, t))

GetActualEvents(b, sb, acts, wfS, wfE, t) ==
  LET Refreshed(swept, up) ==
        Outcome(swept.blob, swept.sblob, up.acts, up.err,
                IF up.err = "none" THEN up.acts ELSE <<>>, NoVal, TRUE)
      Swept(swept) ==
        IF swept.err # "none" THEN swept
        ELSE Refreshed(swept, UploadActualEvents(swept.blob, t))
  IN Swept(AutoDeleteEvents(b, sb, acts, wfS, wfE, t))

\* EventService.getWeekRange
GetWeekRange(date) ==
  LET dayOfWeek == GetDay(date)
      diffToMonday == IF dayOfWeek = 0 THEN -6 ELSE 1 - dayOfWeek
      monday == ((date \div DAY_MIN) + diffToMonday) * DAY_MIN
  IN [start |-> monday, end |-> monday + 7 * DAY_MIN]

\* resultList.sort((a, b) => new Date(a.start) - new Date(b.start)): a
\* stable sort; a NaN difference counts as 0.
RECURSIVE InsertByStart(_, _)
InsertByStart(sorted, e) ==
  IF sorted = <<>> THEN <<e>>
  ELSE IF Lt(e.start, Head(sorted).start) THEN <<e>> \o sorted
  ELSE <<Head(sorted)>> \o InsertByStart(Tail(sorted), e)

RECURSIVE SortByStart(_, _)
SortByStart(list, sorted) ==
  IF list = <<>> THEN sorted
  ELSE SortByStart(Tail(list), InsertByStart(sorted, Head(list)))

\* The for loop of getWeekListOfEvents.  new Date(ev.start <= week.end) is
\* a Date object, which is truthy whatever the comparison gives.
RECURSIVE WeekLoop(_, _, _)
WeekLoop(evs, week, resultList) ==
  IF evs = <<>> THEN [list |-> resultList, err |-> "none"]
  ELSE IF ~Head(evs).isObject THEN [list |-> resultList, err |-> "TypeError"]
  ELSE LET Marked(ev) ==
             IF ev.repeat # "never"
             THEN WeekLoop(Tail(evs), week, RepeateRule(NewEvent(ev), week, resultList))
             ELSE IF Ge(ev.start, week.start) /\ InstanceOfDate(Le(ev.start, week.end))
             THEN WeekLoop(Tail(evs), week, Append(resultList, NewEvent(ev)))
             ELSE WeekLoop(Tail(evs), week, resultList)
       IN Marked([Head(evs) EXCEPT !.checkRepeat = Head(evs).repeat])

\* getWeekListOfEvents
GetWeekListOfEvents(b, sb, acts, date, wfS, wfE, t) ==
  LET Looped(swept, loop) ==
        IF loop.err # "none"
        THEN Outcome(swept.blob, swept.sblob, acts, loop.err, <<>>, NoVal, TRUE)
        ELSE Outcome(swept.blob, swept.sblob, acts, "none",
                     SortByStart(loop.list, <<>>), NoVal, TRUE)
      Swept(swept) ==
        IF swept.err # "none" THEN swept
        ELSE Looped(swept, WeekLoop(LoadEvents(swept.blob), GetWeekRange(date), <<>>))
  IN Swept(AutoDeleteEvents(b, sb, acts, wfS, wfE, t))

\* The for loop of separateListToPastCurrentFutureEvents at the instant t.
RECURSIVE SeparateLoopPlain(_, _, _, _, _)
SeparateLoopPlain(evs, t, past, current, future) ==
  IF evs = <<>>
  THEN [past |-> past, current |-> current, future |-> future]
  ELSE IF Gt(t, Head(evs).end)
  THEN SeparateLoopPlain(Tail(evs), t, past + 1, current, future)
  ELSE IF Gt(Head(evs).start, t)
  THEN SeparateLoopPlain(Tail(evs), t, past, current, future + 1)
  ELSE SeparateLoopPlain(Tail(evs), t, past, current + 1, future)

RECURSIVE SeparateLoop(_, _, _, _, _)
SeparateLoop(evs, t, past, current, future) ==
  IF evs = <<>>
  THEN [past |-> past, current |-> past + current,
        future |-> past + current + future]
  ELSE IF Gt(t, Head(evs).end)
  THEN SeparateLoop(Tail(evs), t, past + 1, current, future)
  ELSE IF Gt(Head(evs).start, t)
  THEN SeparateLoop(Tail(evs), t, past, current, future + 1)
  ELSE SeparateLoop(Tail(evs), t, past, current + 1, future)

\* EventService.separateListToPastCurrentFutureEvents
SeparateListToPastCurrentFutureEvents(eventsList, t) ==
  SeparateLoop(eventsList, t, 0, 0, 0)

(***************************************************************************)
(* The state: the two blobs of the file store, the service's actualEvents, *)
(* the clock, and a record of the last call (its arguments, whether the    *)
(* file store failed a write, the error it threw, what it returned, the    *)
(* events blob before it, the id its generator produced, whether it wrote  *)
(* the events blob).                                                       *)
(***************************************************************************)
VARIABLES blob, settingsBlob, actualEvents, now, last

vars == <<blob, settingsBlob, actualEvents, now, last>>

Call(op, arg, id, date, wfail, o, pre) ==
  [op |-> op, arg |-> arg, id |-> id, date |-> date, wfail |-> wfail,
   err |-> o.err, ret |-> o.ret, pre |-> pre, gen |-> o.gen, wrote |-> o.wrote]

NoCall(op, pre) ==
  [op |-> op, arg |-> NullEvent, id |-> NoVal, date |-> 0, wfail |-> FALSE,
   err |-> "none", ret |-> <<>>, pre |-> pre, gen |-> NoVal, wrote |-> FALSE]

Init ==
  /\ blob \in {AbsentBlob, CorruptBlob}
  /\ settingsBlob \in {AbsentSettings, CorruptSettings}
  /\ actualEvents = <<>>
  /\ now = Now0
  /\ last = NoCall("init", blob)

Apply(o, call) ==
  /\ blob' = o.blob
  /\ settingsBlob' = o.sblob
  /\ actualEvents' = o.acts
  /\ last' = call
  /\ UNCHANGED now

Create ==
  \E event \in InputEvents, wfail \in BOOLEAN :
    \E gen \in Rolls(event, LoadEvents(blob)) :
    /\ Len(LoadEvents(blob)) < MaxEvents
    /\ \E o \in {CreateNewEvent(blob, settingsBlob, actualEvents, event, gen, wfail, now)} :
         Apply(o, Call("create", event, event.id, 0, wfail, o, blob))

Edit ==
  \E event \in InputEvents, wfail \in BOOLEAN :
    \E o \in {EditEvent(blob, settingsBlob, actualEvents, event, wfail, now)} :
      Apply(o, Call("edit", event, event.id, 0, wfail, o, blob))

Delete ==
  \E id \in {"a", "b", NoVal}, wfail \in BOOLEAN :
    \E o \in {DeleteEvent(blob, settingsBlob, actualEvents, id, wfail, now)} :
      Apply(o, Call("delete", NullEvent, id, 0, wfail, o, blob))

ClearAll ==
  \E wfail \in BOOLEAN :
    \E o \in {ClearHistoryOfEvents(blob, settingsBlob, actualEvents, wfail)} :
      Apply(o, Call("clearAll", NullEvent, NoVal, 0, wfail, o, blob))

ListActual ==
  \E wfS \in BOOLEAN, wfE \in BOOLEAN :
    \E o \in {GetActualEvents(blob, settingsBlob, actualEvents, wfS, wfE, now)} :
      Apply(o, Call("listActual", NullEvent, NoVal, 0, wfS \/ wfE, o, blob))

ListForWeek ==
  \E date \in {now, now - 7 * DAY_MIN, now + DAY_MIN}, wfS \in BOOLEAN, wfE \in BOOLEAN :
    \E o \in {GetWeekListOfEvents(blob, settingsBlob, actualEvents, date, wfS, wfE, now)} :
      Apply(o, Call("listForWeek", NullEvent, NoVal, date, wfS \/ wfE, o, blob))

StoreSettings ==
  \E settings \in InputSettings, wfail \in BOOLEAN :
    \E saved \in {SaveSettings(settingsBlob, settings, wfail)} :
      /\ settingsBlob' = saved.sblob
      /\ last' = [NoCall("saveSettings", blob) EXCEPT !.err = saved.err,
                                                      !.wfail = wfail]
      /\ UNCHANGED <<blob, actualEvents, now>>

Tick ==
  /\ now < Now0 + MaxTicks * HOUR_MS
  /\ now' = now + HOUR_MS
  /\ last' = NoCall("tick", blob)
  /\ UNCHANGED <<blob, settingsBlob, actualEvents>>

Next ==
  \/ Create
  \/ Edit
  \/ Delete
  \/ ClearAll
  \/ ListActual
  \/ ListForWeek
  \/ StoreSettings
  \/ Tick

Spec == Init /\ [][Next]_vars

(***************************************************************************)
(* A second specification for the read paths: the service starts on a     *)
(* collection that earlier creates and edits left in the store, with       *)
(* events around the retention thresholds, the bounds of the week, the     *)
(* bounds of the actual window, and with unparsable or inverted dates, and *)
(* on any of the settings; then only listings, the counting helper and the *)
(* clock act.                                                              *)
(***************************************************************************)
ReadTemplates ==
  LET T == Now0
      W == GetWeekRange(Now0)
      E(start, end, repeat) == Ev(NoVal, "tea", start, end, repeat)
  IN { \* ended exactly 24h, 24h and a minute, 7 days, 31 days ago; a weekly
       \* event that ended 32 days ago
       E(T - 25 * HOUR_MS, T - 24 * HOUR_MS, "never"),
       E(T - 25 * HOUR_MS, T - 24 * HOUR_MS - 1, "never"),
       E(T - 7 * 24 * HOUR_MS - HOUR_MS, T - 7 * 24 * HOUR_MS, "never"),
       E(T - 31 * 24 * HOUR_MS - HOUR_MS, T - 31 * 24 * HOUR_MS, "never"),
       E(T - 32 * 24 * HOUR_MS - HOUR_MS, T - 32 * 24 * HOUR_MS, "week"),
       \* starting on Monday 00:00, a minute before it, a minute before the
       \* next Monday 00:00, on it, three days after it
       E(W.start, W.start + HOUR_MS, "never"),
       E(W.start - 1, W.start + HOUR_MS, "never"),
       E(W.end - 1, W.end + HOUR_MS, "never"),
       E(W.end, W.end + HOUR_MS, "never"),
       E(W.end + 3 * DAY_MIN, W.end + 3 * DAY_MIN + HOUR_MS, "never"),
       \* starting in 10h, in 11h; ended 2h ago, 3h ago; in progress; in
       \* progress since 5h for 20h more; across 12 o'clock; starting in 1h
       \* for 11h
       E(T + 10 * HOUR_MS, T + 11 * HOUR_MS, "never"),
       E(T + 11 * HOUR_MS, T + 12 * HOUR_MS, "never"),
       E(T - 3 * HOUR_MS, T - 2 * HOUR_MS, "never"),
       E(T - 4 * HOUR_MS, T - 3 * HOUR_MS, "never"),
       E(T - 1 * HOUR_MS, T + 2 * HOUR_MS, "never"),
       E(T - 5 * HOUR_MS, T + 20 * HOUR_MS, "never"),
       E(T + 3 * HOUR_MS, T + 5 * HOUR_MS, "never"),
       E(T + 1 * HOUR_MS, T + 12 * HOUR_MS, "never"),
       \* an unparsable end, an unparsable start, an end before the start
       E(T + 1 * HOUR_MS, NaN, "never"),
       E(NaN, T - 1 * HOUR_MS, "never"),
       E(T + 2 * HOUR_MS, T - 1 * HOUR_MS, "never") }

\* Collections of at most MaxEvents of these events under distinct ids.
ReadCollections ==
  LET ids == <<"a", "b", "c">>
  IN UNION { { [i \in 1..n |-> [f[i] EXCEPT !.id = ids[i]]] :
               f \in [1..n -> ReadTemplates] } : n \in 0..MaxEvents }

ReadSettings ==
  {AbsentSettings} \cup
  { [kind |-> "json", value |-> Settings(a, "standard")] :
      a \in {"never", "day", "week", "month"} }

InitRead ==
  /\ blob \in { Serialize(c) : c \in ReadCollections }
  /\ settingsBlob \in ReadSettings
  /\ actualEvents = <<>>
  /\ now = Now0
  /\ last = NoCall("init", blob)

\* The counting helper over the stored collection or the actual list; the
\* record of the call keeps the list it was given as pre.
Count ==
  \E list \in {LoadEvents(blob), actualEvents} :
    /\ last' = [NoCall("counts", Serialize(list)) EXCEPT
                  !.ret = SeparateListToPastCurrentFutureEvents(list, now)]
    /\ UNCHANGED <<blob, settingsBlob, actualEvents, now>>

NextRead ==
  \/ ListActual
  \/ ListForWeek
  \/ Count
  \/ Tick

SpecRead == InitRead /\ [][NextRead]_vars

(***************************************************************************)
(* A third specification for monthly recurrence: the store holds monthly   *)
(* events anchored on the 31st of January (of a leap and of a common       *)
(* year), on the 31st of December and on a 15th, all from 10:00 to 11:00,  *)
(* and the service is started weeks or months later; then the listings     *)
(* act.                                                                    *)
(***************************************************************************)
MonthTemplates ==
  LET E(y, m, d) == Ev(NoVal, "tea", DateOf(y, m, d) + 10 * HOUR_MS,
                      DateOf(y, m, d) + 11 * HOUR_MS, "month")
  IN { E(EpochYear, 0, 31), E(EpochYear, 0, 15),
       E(EpochYear, 11, 31), E(EpochYear + 1, 0, 31) }

\* The instants at which the service is started: 08:00 on 1 April, on
\* 1 February of the next year, on 1 April of the next year.
MonthNows ==
  { DateOf(EpochYear, 3, 1) + 8 * HOUR_MS,
    DateOf(EpochYear + 1, 1, 1) + 8 * HOUR_MS,
    DateOf(EpochYear + 1, 3, 1) + 8 * HOUR_MS }

MonthCollections ==
  LET ids == <<"a", "b", "c">>
  IN UNION { { [i \in 1..n |-> [f[i] EXCEPT !.id = ids[i]]] :
               f \in [1..n -> MonthTemplates] } : n \in 0..MaxEvents }

InitMonth ==
  /\ blob \in { Serialize(c) : c \in MonthCollections }
  /\ settingsBlob \in ReadSettings
  /\ actualEvents = <<>>
  /\ now \in MonthNows
  /\ last = NoCall("init", blob)

NextMonth ==
  \/ ListActual
  \/ ListForWeek

SpecMonth == InitMonth /\ [][NextMonth]_vars

(***************************************************************************)
(* A fourth specification for the angle of a time of day: the two          *)
(* convertTimeToAngle functions are applied to every hour and minute of    *)
(* the day of start-up; the record of the call keeps the instant as date   *)
(* and the two angles as ret.                                              *)
(***************************************************************************)
Angle ==
  \E h \in 0..23, m \in 0..59 :
    \E t \in {(now \div DAY_MIN) * DAY_MIN + h * HOUR_MS + m} :
      /\ last' = [NoCall("angle", blob) EXCEPT
                    !.date = t,
                    !.ret = << ConvertTimeToAngle(t),
                               CalcConvertTimeToAngle([h |-> h, m |-> m]) >>]
      /\ UNCHANGED <<blob, settingsBlob, actualEvents, now>>

NextAngle == Angle

SpecAngle == Init /\ [][NextAngle]_vars

(***************************************************************************)
(* Properties.  stored is the persisted collection as #loadEvents reads    *)
(* it, before is the collection the last call found.                       *)
(***************************************************************************)
stored == LoadEvents(blob)

before == LoadEvents(last.pre)

Mutations == {"create", "edit", "delete", "clearAll"}

Listings == {"listActual", "listForWeek"}

\* C1: after any sequence of calls no two events of the persisted
\* collection carry the same id.
C1_UniqueIds ==
  \A i, j \in 1..Len(stored) : i # j => stored[i].id # stored[j].id

\* Two successive creates of an event with identical fields and no id: both
\* are stored, the second under a generated id.
C1_Witness ==
  /\ last.op = "create" /\ last.err = "none"
  /\ last.arg.id = NoVal /\ last.gen # NoVal
  /\ stored = <<last.arg, [last.arg EXCEPT !.id = last.gen]>>

\* C2: whenever create returns, the event it persisted carries an id that
\* the generator produced during that call.
C2_CreateAssignsGeneratedId ==
  (last.op = "create" /\ last.err = "none")
    => (last.gen # NoVal /\ stored[Len(stored)].id = last.gen)

\* C3: every event of the persisted collection satisfies checkEventFields.
C3_StoredEventsValid == AllValid(stored)

\* C4: a create that fails on validation or on the write throws and leaves
\* the events blob exactly as it was.
C4_FailedCreateKeepsStore ==
  (last.op = "create" /\ (~Valid(last.arg) \/ last.wfail))
    => (last.err # "none" /\ blob = last.pre)

\* A valid event whose write fails, on a store that already holds an event.
C4_Witness ==
  /\ last.op = "create" /\ Valid(last.arg) /\ last.wfail
  /\ Len(stored) >= 1

\* C5, for a parsable blob holding a record that fails the validation
\* predicate: listActual and listForWeek return and never throw (no write
\* of the file store failing).
C5_ListingsNeverThrow ==
  (last.op \in Listings /\ ~last.wfail /\ ~AllValid(before))
    => last.err = "none"

\* C6: after a call that wrote the collection, actualEvents is the list
\* derived from the collection just persisted.
C6_ActualEventsFollowStore ==
  (last.op \in Mutations /\ last.wrote)
    => actualEvents = UploadActualEvents(blob, now).acts

\* The collection edit(e) is to persist: e in place of every valid record
\* with its id, every other record unchanged.
EditExpected(list, e) ==
  [i \in 1..Len(list) |->
     IF Valid(list[i]) /\ list[i].id = e.id THEN e ELSE list[i]]

\* C7: an edit over a collection holding a record that fails the predicate
\* passes that record through, persists the result and returns.
C7_EditPassesInvalidThrough ==
  (last.op = "edit" /\ last.arg.isObject /\ ~last.wfail /\ ~AllValid(before))
    => (last.err = "none" /\ stored = EditExpected(before, last.arg))

\* C8: a delete or a retention sweep over a collection holding a record
\* that fails the predicate completes, persists a collection without that
\* record and throws nothing.
C8_ScansDropInvalid ==
  (last.op \in {"delete"} \cup Listings /\ ~last.wfail /\ ~AllValid(before))
    => (last.err = "none" /\ last.wrote /\ AllValid(stored))

Others(list, id) == SelectSeq(list, LAMBDA e : e.id # id)

\* C9: over valid events delete(id) persists and returns exactly the stored
\* events whose id differs from id, in their order.
C9_DeleteReturnsOthers ==
  (last.op = "delete" /\ ~last.wfail /\ AllValid(before))
    => /\ last.err = "none"
       /\ stored = Others(before, last.id)
       /\ last.ret = Others(before, last.id)

\* C10: over valid events, edit and delete of an id no stored event has
\* throw nothing and leave the collection as it was; delete returns it.
C10_MissingIdIsNoOp ==
  (/\ last.op \in {"edit", "delete"}
   /\ last.op = "edit" => last.arg.isObject
   /\ ~last.wfail
   /\ AllValid(before)
   /\ last.id \notin Ids(before))
    => /\ last.err = "none"
       /\ stored = before
       /\ last.op = "delete" => last.ret = before

\* The retention threshold of an autoDelete setting.
Threshold(autoDelete) ==
  IF autoDelete = "day" THEN 24 * HOUR_MS
  ELSE IF autoDelete = "week" THEN 7 * 24 * HOUR_MS
  ELSE 31 * 24 * HOUR_MS

Expired(e, autoDelete, t) ==
  /\ e.repeat = "never"
  /\ autoDelete \in {"day", "week", "month"}
  /\ IsNum(e.end)
  /\ t - e.end > Threshold(autoDelete)

\* The setting a sweep read: the sweep leaves the settings as they were or,
\* when it found none, stores the defaults.
sweepSetting == LoadSettings(settingsBlob, FALSE).settings.autoDelete

\* C11: a retention sweep over valid events (no write failing) persists
\* exactly the events that are not both non-repeating and ended strictly
\* more than the threshold of the autoDelete setting before now: an event
\* that ended exactly the threshold ago stays, a repeating event stays, and
\* under never every event stays.
C11_SweepRemovesExpired ==
  (last.op \in Listings /\ ~last.wfail /\ AllValid(before))
    => stored = SelectSeq(before, LAMBDA e : ~Expired(e, sweepSetting, now))

\* Under autoDelete = day a sweep met an event that ended exactly 24h ago
\* and one that ended 24h and a minute ago, and kept only the first.
C11_Witness ==
  /\ last.op \in Listings /\ ~last.wfail /\ sweepSetting = "day"
  /\ Len(before) = 2 /\ Len(stored) = 1
  /\ now - before[1].end = 24 * HOUR_MS /\ stored[1] = before[1]
  /\ now - before[2].end = 24 * HOUR_MS + 1

\* C12: loadSettings returns a settings record and raises nothing, whatever
\* the settings blob holds and whether or not the write of the defaults
\* fails; over a missing, unparsable or ill-shaped blob the record is the
\* defaults; hence no listing is aborted by a settings error, and the
\* settings a listing leaves behind load without error.
C12_LoadSettingsNeverRaises ==
  last.op \in Listings =>
    /\ last.err # "Save settings failed"
    /\ \A wfail \in BOOLEAN :
         LET r == LoadSettings(settingsBlob, wfail)
         IN /\ r.err = "none"
            /\ ValidateSettings(r.settings)
            /\ (settingsBlob.kind # "json" \/ ~ValidateSettings(settingsBlob.value))
                 => r.settings = DefaultSettings

InWeek(e, date) ==
  /\ Ge(e.start, GetWeekRange(date).start)
  /\ Lt(e.start, GetWeekRange(date).end)

\* C13: when create(e) has returned and the next call is a listForWeek(d)
\* with d in the week of e.start that returns (its sweep removing nothing),
\* the returned list holds a record with e's description, color and repeat
\* under the id e was stored with, an id no other stored event carries;
\* for every repeat value.
C13_CreateThenListForWeek ==
  [][ (/\ last.op = "create" /\ last.err = "none"
       /\ last'.op = "listForWeek" /\ last'.err = "none"
       /\ blob' = blob
       /\ InWeek(last.arg, last'.date))
      => \E j \in 1..Len(last'.ret) :
           /\ last'.ret[j].description = last.arg.description
           /\ last'.ret[j].color = last.arg.color
           /\ last'.ret[j].repeat = last.arg.repeat
           /\ last'.ret[j].id = stored[Len(stored)].id
           /\ \A i \in 1..(Len(stored) - 1) : stored[i].id # last'.ret[j].id ]_vars

\* C14: listForWeek(d) over valid events returns, holds a stored
\* non-repeating event exactly when its start lies in [Monday 00:00, next
\* Monday 00:00) of the week of d, and is sorted ascending by start.
C14_WeekListIsWindow ==
  (last.op = "listForWeek" /\ ~last.wfail /\ AllValid(before))
    => /\ last.err = "none"
       /\ \A i \in 1..Len(stored) :
            stored[i].repeat = "never"
              => ((\E j \in 1..Len(last.ret) : last.ret[j].id = stored[i].id)
                    <=> InWeek(stored[i], last.date))
       /\ \A j \in 1..(Len(last.ret) - 1) :
            last.ret[j].start <= last.ret[j + 1].start

\* C15: every record of the list listActual returns carries startAngle and
\* endAngle, with startAngle <= endAngle, startAngle in [-360, 360) and
\* endAngle in [0, 360) degrees.
C15_ActualListAngles ==
  (last.op = "listActual" /\ last.err = "none")
    => \A j \in 1..Len(last.ret) :
         /\ last.ret[j].startAngle # Undef
         /\ last.ret[j].endAngle # Undef
         /\ Le(last.ret[j].startAngle, last.ret[j].endAngle)
         /\ Ge(last.ret[j].startAngle, -360 * DEG)
         /\ Lt(last.ret[j].startAngle, 360 * DEG)
         /\ Ge(last.ret[j].endAngle, 0)
         /\ Lt(last.ret[j].endAngle, 360 * DEG)

\* The actuality predicate as the claim states it, at the instant t.
ActualAt(e, t) ==
  \/ IsNum(e.start) /\ 0 <= e.start - t /\ e.start - t <= 10 * HOUR_MS
  \/ IsNum(e.end) /\ 0 <= t - e.end /\ t - e.end <= 2 * HOUR_MS
  \/ IsNum(e.start) /\ IsNum(e.end) /\ e.start <= t /\ t <= e.end

\* The list the last call returned holds the stored event e.
Listed(e) ==
  /\ last.err = "none"
  /\ \E j \in 1..Len(last.ret) : last.ret[j].id = e.id

\* C16: after a listActual over valid events (no write failing), a stored
\* event is in the returned list exactly when it starts within the next
\* 10h, ended within the last 2h, or is in progress.
C16_ListedIffActual ==
  (last.op = "listActual" /\ ~last.wfail /\ AllValid(before))
    => \A i \in 1..Len(stored) : Listed(stored[i]) <=> ActualAt(stored[i], now)

\* C17: every persisted record is an event that a create or an edit was
\* handed (under the id create gave it), and carries no checkRepeat,
\* startAngle or endAngle: no listing writes an occurrence or a display
\* field to the store.
C17_NoDerivedDataPersisted ==
  \A i \in 1..Len(stored) :
    /\ stored[i].checkRepeat = NoVal
    /\ stored[i].startAngle = Undef
    /\ stored[i].endAngle = Undef
    /\ \E e \in InputEvents, id \in IdPool \cup {NoVal} :
         stored[i] = [e EXCEPT !.id = id]

\* listActual returned a stored event with its angles, over a store that
\* also holds a repeating event, and the stored record has no angles.
C17_Witness ==
  /\ last.op = "listActual" /\ last.err = "none"
  /\ \E i \in 1..Len(stored) : stored[i].repeat = "day"
  /\ \E j \in 1..Len(last.ret), i \in 1..Len(stored) :
       /\ last.ret[j].startAngle # Undef
       /\ last.ret[j].id = stored[i].id
       /\ stored[i].startAngle = Undef

\* The number of events of a list that satisfy P.
HowMany(list, P(_)) == Len(SelectSeq(list, P))

\* C18 as stated, before being the list the helper was given: past counts
\* the events with end < now, current adds those with start <= now <= end,
\* future adds those with start > now, so that past <= current <= future
\* and future is the length of the list.
C18_CumulativeCounts ==
  last.op = "counts" =>
    LET p == HowMany(before, LAMBDA e : Lt(e.end, now))
        c == HowMany(before, LAMBDA e : Le(e.start, now) /\ Le(now, e.end))
        f == HowMany(before, LAMBDA e : Gt(e.start, now))
    IN /\ last.ret.past = p
       /\ last.ret.current = p + c
       /\ last.ret.future = p + c + f
       /\ last.ret.past <= last.ret.current
       /\ last.ret.current <= last.ret.future
       /\ last.ret.future = Len(before)

\* C18 as amended: the three classes are tried in the order past, future,
\* current, so an event counts once: future adds the events with
\* start > now that are not past, and current adds every event that is
\* neither.
C18_CumulativeCountsInOrder ==
  last.op = "counts" =>
    LET p == HowMany(before, LAMBDA e : Lt(e.end, now))
        f == HowMany(before, LAMBDA e : ~Lt(e.end, now) /\ Gt(e.start, now))
        c == HowMany(before, LAMBDA e : ~Lt(e.end, now) /\ ~Gt(e.start, now))
    IN /\ last.ret.past = p
       /\ last.ret.current = p + c
       /\ last.ret.future = p + c + f
       /\ last.ret.past <= last.ret.current
       /\ last.ret.current <= last.ret.future
       /\ last.ret.future = Len(before)

\* The helper counted a list of an event that ended before now and starts
\* after now and an event still to start: 1 past, 1 up to current, 2 in all.
C18_Witness ==
  /\ last.op = "counts" /\ Len(before) = 2
  /\ Lt(before[1].end, now) /\ Gt(before[1].start, now)
  /\ Gt(before[2].start, now) /\ Gt(before[2].end, now)
  /\ last.ret = [past |-> 1, current |-> 1, future |-> 2]

\* The windows the two callers of #repeateRule hand it at the instant t.
ExpansionWindows(t) ==
  { [start |-> t - 2 * HOUR_MS, end |-> t + 10 * HOUR_MS] } \cup
  { GetWeekRange(d) : d \in {t, t - 7 * DAY_MIN, t + DAY_MIN} }

RECURSIVE Occurrences(_, _, _, _)
Occurrences(e, step, W, k) ==
  IF e.start + k * step > W THEN <<>>
  ELSE << [e EXCEPT !.start = e.start + k * step,
                    !.end = e.end + k * step,
                    !.repeat = "never",
                    !.checkRepeat = e.repeat] >>
       \o Occurrences(e, step, W, k + 1)

\* C20: when a listing has returned, the expansion of a stored daily or
\* weekly event over each window of its callers is the list of its
\* occurrences k = 1, 2, ... with start = start + k * step up to the end
\* of the window, end moved by the same amount, repeat = never and
\* checkRepeat the rule; the event itself (k = 0) is not among them.
C20_DayWeekOccurrences ==
  (last.op \in Listings /\ last.err = "none")
    => \A i \in 1..Len(stored), w \in ExpansionWindows(now) :
         (/\ stored[i].repeat \in {"day", "week"}
          /\ IsNum(stored[i].start) /\ IsNum(stored[i].end))
           => RepeateRule(stored[i], w, <<>>)
                = Occurrences(stored[i], GetRepeatTimeMs(stored[i]), w.end, 1)

\* The day a monthly event recurs on after the day c: the same day of the
\* following month, or that month's last day when it is shorter.
NextMonthDate(c) ==
  LET m == IF c.month = 11 THEN 0 ELSE c.month + 1
      y == IF c.month = 11 THEN c.year + 1 ELSE c.year
  IN [year |-> y, month |-> m,
      date |-> IF c.date < DaysInMonth(y, m) THEN c.date ELSE DaysInMonth(y, m)]

\* The number of successive monthly recurrence days after the day c that
\* end at or before the instant W.
RECURSIVE DueMonths(_, _)
DueMonths(c, W) ==
  LET n == NextMonthDate(c)
  IN IF DateOf(n.year, n.month, n.date) + DAY_MIN > W THEN 0
     ELSE 1 + DueMonths(n, W)

\* C21: when a listing has returned, the expansion of a stored monthly
\* event over each window of its callers holds an occurrence for every
\* recurrence day that ends before the window does, and each occurrence
\* falls on the recurrence day after the previous one (the first after the
\* event's own day): the following month, December followed by January,
\* on the same day or the month's last.
C21_MonthlyDates ==
  (last.op \in Listings /\ last.err = "none")
    => \A i \in 1..Len(stored), w \in ExpansionWindows(now) :
         (stored[i].repeat = "month" /\ IsNum(stored[i].start))
           => LET occ == RepeateRule(stored[i], w, <<>>)
              IN /\ Len(occ) >= DueMonths(Civil(stored[i].start), w.end)
                 /\ \A k \in 1..Len(occ) :
                      Civil(occ[k].start) =
                        NextMonthDate(Civil(IF k = 1 THEN stored[i].start
                                            ELSE occ[k - 1].start))

\* The records of a returned list that recurrence expansion produced.
IsOccurrence(r) == r.repeat = "never" /\ r.checkRepeat \in RepeatRules

IsAngleOf(v, a) == v = a \/ v = a - 360 * DEG

\* C23: listActual over valid events with parsable dates (no write
\* failing) returns, and in the returned list a stored event that started
\* more than 2h before now has the startAngle of now - 2h, and one that
\* ends more than 10h after now has the endAngle of now + 10h, each clamp
\* whether or not the other applies.
C23_BothClamps ==
  (/\ last.op = "listActual" /\ ~last.wfail /\ AllValid(before)
   /\ \A i \in 1..Len(before) : IsNum(before[i].start) /\ IsNum(before[i].end))
    => /\ last.err = "none"
       /\ \A j \in 1..Len(last.ret) :
            ~IsOccurrence(last.ret[j])
              => /\ last.ret[j].start < now - 2 * HOUR_MS
                      => IsAngleOf(last.ret[j].startAngle,
                                   ConvertTimeToAngle(now - 2 * HOUR_MS))
                 /\ last.ret[j].end > now + 10 * HOUR_MS
                      => last.ret[j].endAngle
                           = ConvertTimeToAngle(now + 10 * HOUR_MS)

C25_MonthlyTimeOfDay ==
  (last.op \in Listings /\ last.err = "none")
    => \A i \in 1..Len(stored), w \in ExpansionWindows(now) :
         (/\ stored[i].repeat = "month"
          /\ IsNum(stored[i].start) /\ IsNum(stored[i].end))
           => LET occ == RepeateRule(stored[i], w, <<>>)
              IN /\ Len(occ) >= DueMonths(Civil(stored[i].start), w.end)
                 /\ \A k \in 1..Len(occ) :
                      /\ GetHours(occ[k].start) = GetHours(stored[i].start)
                      /\ GetMinutes(occ[k].start) = GetMinutes(stored[i].start)
                      /\ Minus(occ[k].end, occ[k].start)
                           = stored[i].end - stored[i].start

====
